---- MODULE Spec2Model ----
(***************************************************************************)
(* Model of src/PG_GAN_417/utils.py: checkpoint persistence                *)
(* (save_checkpoint / load_checkpoint), root-logger set-up (set_logger)    *)
(* and loss-history plotting (plot_loss_history).                          *)
(***************************************************************************)
EXTENDS Integers, Sequences, FiniteSets, TLC

VARIABLES
    kind,           \* filesystem: path -> "absent" | "dir"
    files,          \* filesystem: directory -> (file name -> content)
    generator,      \* in-memory generator parameters
    discriminator,  \* in-memory discriminator parameters
    optim_G,        \* in-memory generator optimizer state
    optim_D,        \* in-memory discriminator optimizer state
    last,           \* the most recent checkpoint call: what it was given, printed and did
    level,          \* root logger: level
    handlers,       \* root logger: handlers, in the order they were added
    logfiles,       \* log files: path -> whether it exists, and its lines
    console,        \* lines written to the console stream
    lastLog,        \* the most recent logging call
    plotfiles,      \* files written by plotting: path -> content
    lastPlot        \* the most recent plot_loss_history call

ckptVars == <<kind, files, generator, discriminator, optim_G, optim_D, last>>

logVars == <<level, handlers, logfiles, console, lastLog>>

plotVars == <<plotfiles, lastPlot>>

vars == <<ckptVars, logVars, plotVars>>

(***************************************************************************)
(* Bounds and value sets                                                   *)
(***************************************************************************)
MaxLen == 1

\* consecutive saves to one directory are counted up to this many
SaveCap == 2

Min(a, b) == IF a < b THEN a ELSE b

Variants == {1, 2}

\* a loss history of n recorded steps whose first value is b
History(b, n) == [i \in 1..n |-> b + i]

EmptyDict == [k \in {} |-> 0]

(***************************************************************************)
(* The state dictionary handed to save_checkpoint                          *)
(***************************************************************************)
BaseKeys == {"iters", "gen_state_dict", "dis_state_dict",
             "gen_loss_history", "dis_loss_history"}

OptimKeys == {"optim_G_state_dict", "optim_D_state_dict"}

SubHistoryKeys == {"dis_loss_real_history", "dis_loss_fake_history"}

\* The key sets a caller's dictionary may have: the record of the data model
\* (two histories, optimizer pair optional), the same with the two
\* discriminator sub-histories, and one without the discriminator state.
Shapes == {BaseKeys, BaseKeys \cup OptimKeys,
           BaseKeys \cup SubHistoryKeys,
           BaseKeys \cup SubHistoryKeys \cup OptimKeys,
           (BaseKeys \cup SubHistoryKeys) \ {"dis_state_dict"}}

KeyOrder == <<"iters", "gen_state_dict", "dis_state_dict",
              "optim_G_state_dict", "optim_D_state_dict",
              "gen_loss_history", "dis_loss_history",
              "dis_loss_real_history", "dis_loss_fake_history">>

\* The caller's state number v (iteration count v - 1) with n generator and
\* m discriminator loss values recorded.
FieldValue(k, v, n, m) ==
    CASE k = "iters" -> v - 1
      [] k = "gen_state_dict" -> <<"G", v>>
      [] k = "dis_state_dict" -> <<"D", v>>
      [] k = "optim_G_state_dict" -> <<"OG", v>>
      [] k = "optim_D_state_dict" -> <<"OD", v>>
      [] k = "gen_loss_history" -> History(10 * v, n)
      [] k = "dis_loss_history" -> History(20 * v, m)
      [] k = "dis_loss_real_history" -> History(30 * v, m)
      [] k = "dis_loss_fake_history" -> History(40 * v, m)

MakeState(shape, v, n, m) == [k \in shape |-> FieldValue(k, v, n, m)]

(***************************************************************************)
(* torch.save / torch.load: the dictionary is pickled as its entries in    *)
(* insertion order and rebuilt from them.                                  *)
(***************************************************************************)
Serialize(state) ==
    LET ks == SelectSeq(KeyOrder, LAMBDA k : k \in DOMAIN state)
    IN  [i \in 1..Len(ks) |-> <<ks[i], state[ks[i]]>>]

Deserialize(blob) ==
    [k \in {blob[i][1] : i \in 1..Len(blob)} |->
        LET i == CHOOSE j \in 1..Len(blob) : blob[j][1] = k IN blob[i][2]]

(***************************************************************************)
(* Filesystem                                                              *)
(***************************************************************************)
FileName == "model.pth.tar"

Paths == {"ckpt", "run", "run/ckpt"}

\* the directories save_checkpoint is called with
Dirs == {"ckpt", "run/ckpt"}

Parent(p) == IF p = "run/ckpt" THEN "run" ELSE "."

ParentIsDir(k, p) == Parent(p) = "." \/ k[Parent(p)] = "dir"

\* mutant: the existence test always answers no
os_path_exists_never(k, p) == FALSE

os_path_exists(k, p) == k[p] # "absent"

filepath(checkpoint) == <<checkpoint, FileName>>

FileExists(k, f, path) ==
    k[path[1]] = "dir" /\ path[2] \in DOMAIN f[path[1]]

\* mutant: the directory is reported made but is not
os_mkdir_skipped(k, p) == [err |-> "ok", kind |-> k]

os_mkdir(k, p) ==
    IF k[p] # "absent" THEN [err |-> "FileExistsError", kind |-> k]
    ELSE IF ~ParentIsDir(k, p) THEN [err |-> "FileNotFoundError", kind |-> k]
    ELSE [err |-> "ok", kind |-> [k EXCEPT ![p] = "dir"]]

Put(dir, name, content) ==
    [n \in DOMAIN dir \cup {name} |-> IF n = name THEN content ELSE dir[n]]

torch_save(k, f, state, path) ==
    IF k[path[1]] = "dir"
    THEN [err |-> "ok",
          files |-> [f EXCEPT ![path[1]] = Put(f[path[1]], path[2], Serialize(state))]]
    ELSE [err |-> "FileNotFoundError", files |-> f]

(***************************************************************************)
(* save_checkpoint(state, checkpoint)                                      *)
(***************************************************************************)
NoRet == [returned |-> FALSE, iters |-> 0, gen_loss_history |-> <<>>,
          dis_loss_history |-> <<>>, dis_loss_real_history |-> <<>>,
          dis_loss_fake_history |-> <<>>]

SaveResult(k, f, state, checkpoint) ==
    LET existed == os_path_exists(k, checkpoint)
        made    == IF existed THEN [err |-> "ok", kind |-> k]
                   ELSE os_mkdir(k, checkpoint)
        saved   == torch_save(made.kind, f, state, filepath(checkpoint))
    IN  [msg     |-> IF existed THEN "Checkpoint Directory exists! "
                     ELSE "Checkpoint Directory does not exist! Making directory",
         \* what reached torch.save; nothing when os.mkdir raised
         state   |-> IF made.err # "ok" THEN EmptyDict ELSE state,
         outcome |-> IF made.err # "ok" THEN made.err ELSE saved.err,
         kind    |-> made.kind,
         files   |-> IF made.err # "ok" THEN f ELSE saved.files]

save_checkpoint(state, checkpoint) ==
    LET r == SaveResult(kind, files, state, checkpoint)
    IN  /\ kind' = r.kind
        /\ files' = r.files
        /\ last' = [op |-> "save", dir |-> checkpoint, state |-> r.state,
                    nth |-> IF last.op = "save" /\ last.dir = checkpoint
                            THEN Min(last.nth + 1, SaveCap) ELSE 1,
                    optimizer |-> FALSE, msg |-> r.msg, outcome |-> r.outcome,
                    key |-> "", ret |-> NoRet]
        /\ UNCHANGED <<generator, discriminator, optim_G, optim_D>>
        /\ UNCHANGED <<logVars, plotVars>>

Save ==
    \E shape \in Shapes, v \in Variants, n \in 0..MaxLen, m \in 0..MaxLen, c \in Dirs :
        save_checkpoint(MakeState(shape, v, n, m), c)

(***************************************************************************)
(* load_checkpoint(checkpoint, model, optimizer=None)                      *)
(***************************************************************************)
\* one outcome of load_checkpoint: how it ended, the key a failed lookup
\* named, the objects as the call leaves them, and what it returned
LoadOutcome(outcome, key, g, d, og, od, ret) ==
    [outcome |-> outcome, key |-> key, generator |-> g, discriminator |-> d,
     optim_G |-> og, optim_D |-> od, ret |-> ret]

\* mutant: a missing file is taken for a fresh start and the call returns
RaiseMissing_returns(g, d, og, od) ==
    LoadOutcome("ok", "", g, d, og, od, [NoRet EXCEPT !.returned = TRUE])

\* raise("File doesn't exist ..."): raising a str is itself a TypeError
RaiseMissing(g, d, og, od) == LoadOutcome("TypeError", "", g, d, og, od, NoRet)

\* the first key of ks that the checkpoint does not hold, "" when it holds all
FirstMissing(ck, ks) ==
    IF \A i \in 1..Len(ks) : ks[i] \in DOMAIN ck THEN ""
    ELSE ks[CHOOSE i \in 1..Len(ks) :
                /\ ks[i] \notin DOMAIN ck
                /\ \A j \in 1..(i - 1) : ks[j] \in DOMAIN ck]

\* the lookups made before any object is touched, in the order they are made
ReadOrder == <<"iters", "gen_loss_history", "dis_loss_history",
               "dis_loss_real_history", "dis_loss_fake_history",
               "gen_state_dict">>

\* mutant: optimizer states the checkpoint lacks are skipped silently
RestoreOptimizers_if_present(ck, g, d, og, od, ret) ==
    LoadOutcome("ok", "", g, d,
                IF "optim_G_state_dict" \in DOMAIN ck
                THEN ck["optim_G_state_dict"] ELSE og,
                IF "optim_D_state_dict" \in DOMAIN ck
                THEN ck["optim_D_state_dict"] ELSE od, ret)

\* if optimizer: both optimizer states are looked up and loaded, in this order
RestoreOptimizers(ck, g, d, og, od, ret) ==
    IF "optim_G_state_dict" \notin DOMAIN ck
    THEN LoadOutcome("KeyError", "optim_G_state_dict", g, d, og, od, NoRet)
    ELSE IF "optim_D_state_dict" \notin DOMAIN ck
    THEN LoadOutcome("KeyError", "optim_D_state_dict", g, d,
                     ck["optim_G_state_dict"], od, NoRet)
    ELSE LoadOutcome("ok", "", g, d, ck["optim_G_state_dict"],
                     ck["optim_D_state_dict"], ret)

\* the networks are loaded, generator first, then the optimizers if given
RestoreNetworks(ck, optimizer, g, d, og, od) ==
    LET ret == [returned |-> TRUE, iters |-> ck["iters"],
                gen_loss_history |-> ck["gen_loss_history"],
                dis_loss_history |-> ck["dis_loss_history"],
                dis_loss_real_history |-> ck["dis_loss_real_history"],
                dis_loss_fake_history |-> ck["dis_loss_fake_history"]]
    IN  IF "dis_state_dict" \notin DOMAIN ck
        THEN LoadOutcome("KeyError", "dis_state_dict", ck["gen_state_dict"],
                         d, og, od, NoRet)
        ELSE IF optimizer
        THEN RestoreOptimizers(ck, ck["gen_state_dict"], ck["dis_state_dict"],
                               og, od, ret)
        ELSE LoadOutcome("ok", "", ck["gen_state_dict"], ck["dis_state_dict"],
                         og, od, ret)

LoadResult(k, f, path, optimizer, g, d, og, od) ==
    IF ~FileExists(k, f, path) THEN RaiseMissing(g, d, og, od)
    ELSE LET ck == Deserialize(f[path[1]][path[2]])
             missing == FirstMissing(ck, ReadOrder)
         IN  IF missing # ""
             THEN LoadOutcome("KeyError", missing, g, d, og, od, NoRet)
             ELSE RestoreNetworks(ck, optimizer, g, d, og, od)

load_checkpoint(checkpoint, optimizer) ==
    LET r == LoadResult(kind, files, checkpoint, optimizer,
                        generator, discriminator, optim_G, optim_D)
    IN  /\ generator' = r.generator
        /\ discriminator' = r.discriminator
        /\ optim_G' = r.optim_G
        /\ optim_D' = r.optim_D
        /\ last' = [op |-> "load", dir |-> checkpoint[1], state |-> EmptyDict,
                    nth |-> 0, optimizer |-> optimizer, msg |-> "", outcome |-> r.outcome,
                    key |-> r.key, ret |-> r.ret]
        /\ UNCHANGED <<kind, files>>
        /\ UNCHANGED <<logVars, plotVars>>

Load ==
    \E c \in Dirs, optimizer \in BOOLEAN :
        load_checkpoint(filepath(c), optimizer)

(***************************************************************************)
(* Checkpoint claims                                                       *)
(***************************************************************************)
\* the dictionary torch.load reads back from directory c's artifact
Stored(c) == Deserialize(files[c][FileName])

HasArtifact(c) == FileExists(kind, files, filepath(c))

MakingMsg == "Checkpoint Directory does not exist! Making directory"

\* a record of the data model: both network states, iteration count, the two
\* loss histories of equal length, optimizer states both present or both absent
ValidRecord(ck) ==
    /\ BaseKeys \subseteq DOMAIN ck
    /\ OptimKeys \subseteq DOMAIN ck \/ OptimKeys \cap DOMAIN ck = {}
    /\ ck["iters"] >= 0
    /\ Len(ck["gen_loss_history"]) = Len(ck["dis_loss_history"])

\* C1 (as claimed): loading the artifact that save_checkpoint wrote from any
\* valid record, without optimizers, succeeds and restores the record's
\* network parameters, iteration count and both loss histories.
C1_RoundTrip ==
    (/\ last.op = "load"
     /\ ~last.optimizer
     /\ HasArtifact(last.dir)
     /\ ValidRecord(Stored(last.dir)))
    => /\ last.outcome = "ok"
       /\ last.ret.returned
       /\ generator = Stored(last.dir)["gen_state_dict"]
       /\ discriminator = Stored(last.dir)["dis_state_dict"]
       /\ last.ret.iters = Stored(last.dir)["iters"]
       /\ last.ret.gen_loss_history = Stored(last.dir)["gen_loss_history"]
       /\ last.ret.dis_loss_history = Stored(last.dir)["dis_loss_history"]

\* C2: a load of a path that holds no artifact ends in the error raised at the
\* existence check, returns nothing, and leaves generator, discriminator and
\* both optimizers as they were before the call.
C2_MissingPath ==
    [][(last'.op = "load" /\ ~FileExists(kind, files, filepath(last'.dir)))
       => /\ last'.outcome = "TypeError"
          /\ ~last'.ret.returned
          /\ UNCHANGED <<generator, discriminator, optim_G, optim_D>>]_vars

\* C2 witness: networks restored from one artifact, then a load of a missing
\* path has failed.
C2_Witness ==
    /\ last.op = "load"
    /\ last.dir = "run/ckpt"
    /\ ~HasArtifact("run/ckpt")
    /\ last.outcome = "TypeError"
    /\ generator = <<"G", 1>>

\* C3: a load that is given an optimizer pair, of an artifact saved without
\* optimizer states, ends in an error and never returns normally.
C3_OptimizerAbsent ==
    (/\ last.op = "load"
     /\ last.optimizer
     /\ HasArtifact(last.dir)
     /\ OptimKeys \cap DOMAIN Stored(last.dir) = {})
    => /\ last.outcome = "KeyError"
       /\ ~last.ret.returned

\* C3 witness: every other field is there and the load failed on the first
\* optimizer lookup.
C3_Witness ==
    /\ last.op = "load"
    /\ last.optimizer
    /\ HasArtifact(last.dir)
    /\ DOMAIN Stored(last.dir) = BaseKeys \cup SubHistoryKeys
    /\ last.outcome = "KeyError"
    /\ last.key = "optim_G_state_dict"

\* C4 (as claimed): a load that fails leaves generator, discriminator and both
\* optimizers as they were before the call.
C4_NoPartialRestore ==
    [][(last'.op = "load" /\ last'.outcome # "ok")
       => UNCHANGED <<generator, discriminator, optim_G, optim_D>>]_vars

C6_Original ==
    (last.op = "save" /\ last.msg = MakingMsg)
    => /\ last.outcome = "ok"
       /\ kind[last.dir] = "dir"
       /\ HasArtifact(last.dir)

\* C6 (amended): a save to an absent directory whose parent exists creates it
\* and writes the artifact; when the parent is absent too, os.mkdir fails and
\* nothing is created or written; after any successful save the directory and
\* its model.pth.tar exist.
C6_EnsuresDirectory ==
    last.op = "save"
    => /\ (last.msg = MakingMsg /\ ParentIsDir(kind, last.dir))
          => (last.outcome = "ok" /\ kind[last.dir] = "dir" /\ HasArtifact(last.dir))
       /\ (last.msg = MakingMsg /\ ~ParentIsDir(kind, last.dir))
          => /\ last.outcome = "FileNotFoundError"
             /\ kind[last.dir] = "absent"
             /\ files[last.dir] = EmptyDict
       /\ last.outcome = "ok"
          => (kind[last.dir] = "dir" /\ HasArtifact(last.dir))

\* C6 witness: one directory was created and written, and a save under an
\* absent parent has failed.
C6_Witness ==
    /\ last.op = "save"
    /\ last.dir = "run/ckpt"
    /\ last.msg = MakingMsg
    /\ last.outcome = "FileNotFoundError"
    /\ HasArtifact("ckpt")

\* C8 (as claimed): every artifact on disk has generator and discriminator
\* loss histories of equal length.
C8_EqualLengths ==
    \A c \in Dirs :
        HasArtifact(c)
        => Len(Stored(c)["gen_loss_history"]) = Len(Stored(c)["dis_loss_history"])


(***************************************************************************)
(* set_logger(log_path) and the root logger it configures                  *)
(***************************************************************************)
\* messages logged are counted up to this many
MaxMsgs == 3

\* set_logger calls are counted up to this many
CallCap == 2

LogPaths == {"train.log", "eval.log"}

Msgs == {"Starting training...", "done"}

FileFormat == "%(asctime)s:%(levelname)s: %(message)s"

ConsoleFormat == "%(message)s"

\* logging.BASIC_FORMAT, the format of the handler logging.basicConfig adds
BasicFormat == "%(levelname)s:%(name)s:%(message)s"

FileHandler(log_path) ==
    [class |-> "FileHandler", target |-> log_path, fmt |-> FileFormat]

StreamHandler(fmt) == [class |-> "StreamHandler", target |-> "stderr", fmt |-> fmt]

\* logging.Formatter(fmt).format of an INFO record of the root logger
Format(fmt, msg) ==
    CASE fmt = FileFormat -> <<"asctime", "INFO", msg>>
      [] fmt = ConsoleFormat -> <<msg>>
      [] fmt = BasicFormat -> <<"INFO", "root", msg>>

\* mutant: the handlers are added whatever the logger already has
NeedsHandlers_always(h, log_path) == TRUE

\* mutant: the handlers are added unless a file handler already writes log_path
NeedsHandlers_per_path(h, log_path) ==
    \A i \in 1..Len(h) : h[i].target # log_path

\* if not logger.handlers
NeedsHandlers(h, log_path) == h = <<>>

\* logging.FileHandler(log_path) opens log_path for appending, creating it
Open(lf, log_path) == [lf EXCEPT ![log_path].exists = TRUE]

set_logger(log_path) ==
    /\ level' = "INFO"
    /\ IF NeedsHandlers(handlers, log_path)
       THEN /\ handlers' = handlers \o <<FileHandler(log_path),
                                         StreamHandler(ConsoleFormat)>>
            /\ logfiles' = Open(logfiles, log_path)
       ELSE UNCHANGED <<handlers, logfiles>>
    /\ lastLog' = [op |-> "set_logger", path |-> log_path,
                   calls |-> Min(lastLog.calls + 1, CallCap),
                   clean |-> IF lastLog.calls = 0 THEN handlers = <<>>
                             ELSE lastLog.clean,
                   msgs |-> lastLog.msgs, toFiles |-> 0, toConsole |-> 0]
    /\ UNCHANGED console
    /\ UNCHANGED <<ckptVars, plotVars>>

SetLogger == \E log_path \in LogPaths : set_logger(log_path)

\* the lines handler h appends to the log files for one message
EmitFile(lf, h, msg) ==
    IF h.class = "FileHandler"
    THEN [lf EXCEPT ![h.target].lines = Append(@, Format(h.fmt, msg))]
    ELSE lf

RECURSIVE EmitAllFiles(_, _, _)
EmitAllFiles(lf, hs, msg) ==
    IF hs = <<>> THEN lf
    ELSE EmitAllFiles(EmitFile(lf, Head(hs), msg), Tail(hs), msg)

RECURSIVE EmitAllConsole(_, _, _)
EmitAllConsole(con, hs, msg) ==
    IF hs = <<>> THEN con
    ELSE EmitAllConsole(IF Head(hs).class = "StreamHandler"
                        THEN Append(con, Format(Head(hs).fmt, msg)) ELSE con,
                        Tail(hs), msg)

\* logging.info(msg), as in set_logger's example: a root logger without
\* handlers first gets logging.basicConfig()'s stream handler; the record is
\* handled only if the level lets INFO through
logging_info(msg) ==
    LET hs == IF handlers = <<>> THEN <<StreamHandler(BasicFormat)>> ELSE handlers
        enabled == level = "INFO"
        lf == IF enabled THEN EmitAllFiles(logfiles, hs, msg) ELSE logfiles
        con == IF enabled THEN EmitAllConsole(console, hs, msg) ELSE console
    IN  /\ lastLog.msgs < MaxMsgs
        /\ handlers' = hs
        /\ logfiles' = lf
        /\ console' = con
        /\ lastLog' = [op |-> "info", path |-> "", calls |-> lastLog.calls,
                       clean |-> lastLog.clean, msgs |-> lastLog.msgs + 1,
                       toFiles |-> Len(lf["train.log"].lines) + Len(lf["eval.log"].lines)
                                   - Len(logfiles["train.log"].lines)
                                   - Len(logfiles["eval.log"].lines),
                       toConsole |-> Len(con) - Len(console)]
        /\ UNCHANGED level
        /\ UNCHANGED <<ckptVars, plotVars>>

LoggingInfo == \E msg \in Msgs : logging_info(msg)

FileHandlers == {i \in 1..Len(handlers) : handlers[i].class = "FileHandler"}

ConsoleHandlers == {i \in 1..Len(handlers) : handlers[i].class = "StreamHandler"}

\* C7: once set_logger has been called on a root logger that had no handlers,
\* then after any number of further set_logger calls, with any paths, the
\* root logger has exactly one file handler and one console handler, and a
\* message logged then is written once to the file and once to the console.
C7_OneHandlerEach ==
    (lastLog.calls >= 1 /\ lastLog.clean)
    => /\ Cardinality(FileHandlers) = 1
       /\ Cardinality(ConsoleHandlers) = 1
       /\ lastLog.op = "info" => (lastLog.toFiles = 1 /\ lastLog.toConsole = 1)

\* C7 witness: set_logger was called twice, with different paths, on a logger
\* that started without handlers, and a message has been logged since.
C7_Witness ==
    /\ lastLog.calls >= 2
    /\ lastLog.clean
    /\ lastLog.op = "info"
    /\ logfiles["train.log"].exists
    /\ ~logfiles["eval.log"].exists
    /\ Len(handlers) = 2

\* C10: a set_logger call on a root logger that already has a handler, of any
\* kind, leaves the handlers as they are, opens no file at its log_path, and
\* sets the level to INFO.
C10_OnlyWhenHandlerFree ==
    [][(lastLog'.op = "set_logger" /\ handlers # <<>>)
       => /\ handlers' = handlers
          /\ logfiles' = logfiles
          /\ console' = console
          /\ level' = "INFO"]_vars

\* C10 witness: a second call named another path and the file sink is still
\* the first call's.
C10_Witness ==
    /\ lastLog.op = "set_logger"
    /\ lastLog.calls >= 2
    /\ lastLog.path = "eval.log"
    /\ handlers[1] = FileHandler("train.log")
    /\ ~logfiles["eval.log"].exists

\* C10 witness, other code: the only handler is logging.basicConfig()'s and
\* set_logger has added nothing to it.
C10_WitnessForeign ==
    /\ lastLog.op = "set_logger"
    /\ handlers = <<StreamHandler(BasicFormat)>>
    /\ level = "INFO"

(***************************************************************************)
(* plot_loss_history(loss_history, output_dir)                             *)
(***************************************************************************)
\* .rolling(10)
RollingWindow == 10

\* the output directories: "out" holds a figures/ subdirectory, "bare" none
OutDirs == {"out", "bare"}

HasFigures(output_dir) == output_dir = "out"

\* a path under output_dir: <<output_dir, subdirectory or "", file name>>
figure_path(output_dir, name) == <<output_dir, "figures", name>>

\* mutant: the data file is put beside the figures
history_path_in_figures(output_dir) == <<output_dir, "figures", "history.mat">>

\* os.path.join(output_dir, 'history.mat')
history_path(output_dir) == <<output_dir, "", "history.mat">>

RECURSIVE Sum(_, _, _)
Sum(h, from, to) == IF from > to THEN 0 ELSE h[from] + Sum(h, from + 1, to)

\* one column of .rolling(10).mean(): no value before a full window, then the
\* window's sum over its size
RollingMean(h) ==
    [i \in 1..Len(h) |->
        IF i < RollingWindow THEN [nan |-> TRUE, sum |-> 0, over |-> RollingWindow]
        ELSE [nan |-> FALSE, sum |-> Sum(h, i - RollingWindow + 1, i),
              over |-> RollingWindow]]

\* scipy.io.savemat stores a list as a 1 x n matrix, an empty list as 0 x 0
MatArray(h) ==
    [rows |-> IF h = <<>> THEN 0 ELSE 1, cols |-> Len(h), data |-> h]

Png(lines) == [type |-> "png", lines |-> lines, mdict |-> EmptyDict]

Mat(mdict) == [type |-> "mat", lines |-> <<>>, mdict |-> mdict]

\* what one call wrote and how it ended
PlotOutcome(outcome, written) == [outcome |-> outcome, written |-> written]

NoFiles == [q \in {} |-> Png(<<>>)]

\* the files of w added to, or replacing, those of f
Overwrite(f, w) ==
    [q \in DOMAIN f \cup DOMAIN w |-> IF q \in DOMAIN w THEN w[q] ELSE f[q]]

\* if gen_loss_history and dis_loss_history
BothNonEmpty(gen_loss_history, dis_loss_history) ==
    gen_loss_history # <<>> /\ dis_loss_history # <<>>

\* the body shared by the two forms: the frame of the two histories, its
\* figure, then for three histories the efficiency figure, then the data file
PlotBody(loss_history, output_dir) ==
    LET gen == loss_history[1]
        dis == loss_history[2]
        hist_png == figure_path(output_dir, "history.png") :>
                        Png(<<RollingMean(gen), RollingMean(dis)>>)
        eff_png == figure_path(output_dir, "Eff_history.png") :>
                        Png(<<loss_history[3]>>)
        two == ("gen_loss_history" :> MatArray(gen)) @@
               ("dis_loss_history" :> MatArray(dis))
        mdict == IF Len(loss_history) = 2 THEN two
                 ELSE two @@ ("Eff_history" :> MatArray(loss_history[3]))
        mat == history_path(output_dir) :> Mat(mdict)
    IN  IF ~BothNonEmpty(gen, dis) THEN PlotOutcome("ok", NoFiles)
        \* pd.DataFrame of columns of different lengths
        ELSE IF Len(gen) # Len(dis) THEN PlotOutcome("ValueError", NoFiles)
        \* plt.savefig into a directory that is not there
        ELSE IF ~HasFigures(output_dir) THEN PlotOutcome("FileNotFoundError", NoFiles)
        ELSE IF Len(loss_history) = 2 THEN PlotOutcome("ok", hist_png @@ mat)
        ELSE PlotOutcome("ok", hist_png @@ eff_png @@ mat)

PlotResult(loss_history, output_dir) ==
    IF Len(loss_history) = 2 THEN PlotBody(loss_history, output_dir)
    \* gen_loss_history, dis_loss_history, Eff_history = loss_history
    ELSE IF Len(loss_history) # 3 THEN PlotOutcome("ValueError", NoFiles)
    ELSE PlotBody(loss_history, output_dir)

plot_loss_history(loss_history, output_dir) ==
    LET r == PlotResult(loss_history, output_dir)
    IN  /\ plotfiles' = Overwrite(plotfiles, r.written)
        /\ lastPlot' = [op |-> "plot", loss_history |-> loss_history,
                        output_dir |-> output_dir, outcome |-> r.outcome,
                        written |-> DOMAIN r.written]
        /\ UNCHANGED <<ckptVars, logVars>>

\* the histories a caller passes: one alone, two, or three with the efficiency
LossHistories ==
    {<<History(10 * v, n)>> : v \in Variants, n \in 0..MaxLen}
    \cup {<<History(10 * v, n), History(20 * v, m)>> :
            v \in Variants, n \in 0..MaxLen, m \in 0..MaxLen}
    \cup {<<History(10 * v, n), History(20 * v, m), History(50 * v, e)>> :
            v \in Variants, n \in 0..MaxLen, m \in 0..MaxLen, e \in 0..MaxLen}

PlotLossHistory ==
    \E loss_history \in LossHistories, output_dir \in OutDirs :
        plot_loss_history(loss_history, output_dir)

\* the keys history.mat must hold for the histories passed
ExpectedKeys(loss_history) ==
    IF Len(loss_history) = 2 THEN {"gen_loss_history", "dis_loss_history"}
    ELSE {"gen_loss_history", "dis_loss_history", "Eff_history"}

TwoOrThree == lastPlot.op = "plot" /\ Len(lastPlot.loss_history) \in {2, 3}

\* C9 (as claimed): every file a call with two or three histories writes, the
\* images and history.mat, lies under output_dir/figures/.
C9_Original ==
    TwoOrThree => \A q \in lastPlot.written : q[1] = lastPlot.output_dir /\ q[2] = "figures"

\* C9 (amended): a call with two or three histories writes its images under
\* output_dir/figures/ and history.mat directly under output_dir; a
\* history.mat it writes holds exactly the histories passed (two, or three
\* with the efficiency history); with an empty generator or discriminator
\* history it writes nothing.
C9_HistoryArtifacts ==
    TwoOrThree
    => LET lh == lastPlot.loss_history
           dir == lastPlot.output_dir
           mat == <<dir, "", "history.mat">>
       IN  /\ \A q \in lastPlot.written :
                 /\ q[1] = dir
                 /\ \/ q[2] = "figures" /\ q[3] \in {"history.png", "Eff_history.png"}
                    \/ q = mat
           /\ mat \in lastPlot.written
              => /\ DOMAIN plotfiles[mat].mdict = ExpectedKeys(lh)
                 /\ plotfiles[mat].mdict["gen_loss_history"].data = lh[1]
                 /\ plotfiles[mat].mdict["dis_loss_history"].data = lh[2]
                 /\ Len(lh) = 3 => plotfiles[mat].mdict["Eff_history"].data = lh[3]
           /\ (lastPlot.outcome = "ok" /\ lh[1] # <<>> /\ lh[2] # <<>>)
              => /\ mat \in lastPlot.written
                 /\ <<dir, "figures", "history.png">> \in lastPlot.written
                 /\ Len(lh) = 3 <=> <<dir, "figures", "Eff_history.png">> \in lastPlot.written
           /\ (lh[1] = <<>> \/ lh[2] = <<>>) => lastPlot.written = {}

\* C9 witness: a call with three non-empty histories has written both images
\* and the data file.
C9_Witness ==
    /\ TwoOrThree
    /\ Len(lastPlot.loss_history) = 3
    /\ lastPlot.loss_history[3] # <<>>
    /\ lastPlot.outcome = "ok"
    /\ Cardinality(lastPlot.written) = 3

Init ==
    /\ kind = [p \in Paths |-> "absent"]
    /\ files = [p \in Paths |-> EmptyDict]
    /\ generator = <<"G", 0>>
    /\ discriminator = <<"D", 0>>
    /\ optim_G = <<"OG", 0>>
    /\ optim_D = <<"OD", 0>>
    /\ last = [op |-> "none", dir |-> "", state |-> EmptyDict,
               nth |-> 0, optimizer |-> FALSE, msg |-> "", outcome |-> "",
               key |-> "", ret |-> NoRet]
    /\ level = "WARNING"
    /\ handlers = <<>>
    /\ logfiles = [p \in LogPaths |-> [exists |-> FALSE, lines |-> <<>>]]
    /\ console = <<>>
    /\ lastLog = [op |-> "none", path |-> "", calls |-> 0, clean |-> FALSE,
                  msgs |-> 0, toFiles |-> 0, toConsole |-> 0]
    /\ plotfiles = NoFiles
    /\ lastPlot = [op |-> "none", loss_history |-> <<>>, output_dir |-> "",
                   outcome |-> "", written |-> {}]

NextCkpt == Save \/ Load

SpecCkpt == Init /\ [][NextCkpt]_vars

NextLog == SetLogger \/ LoggingInfo

SpecLog == Init /\ [][NextLog]_vars

NextPlot == PlotLossHistory

SpecPlot == Init /\ [][NextPlot]_vars
====
